---- MODULE Spec2Model ----
(***************************************************************************)
(* Model of useInfiniteLoadQuery (src/src/lib/useInfiniteLoadQuery.ts):    *)
(* the hook's own React state (searchValue), the debounced search handler, *)
(* the Apollo query it observes (variables, network status, cache entry    *)
(* per variables, requests in flight) and the values captured by the last  *)
(* render, which are what the hook returns and what its callbacks close    *)
(* over; and of checkHasBottomReached                                      *)
(* (src/src/lib/checkHasBottomReached.ts), the test a scroll handler makes *)
(* before it calls loadNextPage.                                           *)
(*                                                                         *)
(* Strings are sequences of one-character strings.  An optional value      *)
(* (string | null, a pending call, a request slot) is a sequence of length *)
(* 0 (absent) or 1 (present).                                              *)
(***************************************************************************)
EXTENDS Integers, Sequences, FiniteSets, TLC

\* ------------------------------------------------------------------------
\* Bounds of the model
\* ------------------------------------------------------------------------
MaxLoads == 2

MaxBurst == 3

DebounceTicks == 2

\* ------------------------------------------------------------------------
\* Values
\* ------------------------------------------------------------------------
Null == <<>>

Some(s) == <<s>>

\* the strings callers pass to onSearch / onSearchImmediate
RawInputs == { <<>>, <<" ">>, <<"a">>, <<"\t", "a", " ">> }

\* the characters String.prototype.trim strips, WhiteSpace and LineTerminator of
\* ECMAScript: space, tab, LF, CR, FF, VT, U+00A0, U+1680 and U+FEFF (U+2000 to
\* U+200A, U+2028, U+2029, U+202F, U+205F and U+3000 are stripped as well and
\* cannot be written in a string here)
WhiteSpace == {" ", "\t", "\n", "\r", "\f", "", " ", " ", "﻿"}

RECURSIVE TrimStart(_)
TrimStart(s) == IF s # <<>> /\ Head(s) \in WhiteSpace THEN TrimStart(Tail(s)) ELSE s

RECURSIVE TrimEnd(_)
TrimEnd(s) ==
  IF s # <<>> /\ s[Len(s)] \in WhiteSpace THEN TrimEnd(SubSeq(s, 1, Len(s) - 1)) ELSE s

\* String.prototype.trim
Trim(s) == TrimEnd(TrimStart(s))

TrimOrNullNoTrim(value) == IF value = <<>> THEN Null ELSE Some(value)

\* value.trim() || null
TrimOrNull(value) == IF Trim(value) = <<>> THEN Null ELSE Some(Trim(value))

SearchKeys == { TrimOrNull(v) : v \in RawInputs }

EMPTY_PAGINATION == [pageNumber |-> 0, pageSize |-> 0, total |-> 0, totalPage |-> 0]

\* the defaultPagination prop the caller passes (page 1, two items a page)
DefaultPagination == [pageNumber |-> 1, pageSize |-> 2]

NoData == [has |-> FALSE]

\* ------------------------------------------------------------------------
\* The server behind the query: search key and page cursor to a response
\* ------------------------------------------------------------------------
ServerPages(search) ==
  IF search = Null THEN << <<4, 5>>, <<6, 7>>, <<8>> >>
  ELSE IF search = Some(<<"a">>) THEN << <<1, 2>>, <<2, 3>> >>
  ELSE <<>>

RECURSIVE SumLen(_)
SumLen(pages) == IF pages = <<>> THEN 0 ELSE Len(Head(pages)) + SumLen(Tail(pages))

ServerPagination(search, pagination) ==
  [pageNumber |-> pagination.pageNumber,
   pageSize   |-> pagination.pageSize,
   total      |-> SumLen(ServerPages(search)),
   totalPage  |-> Len(ServerPages(search))]

ServerList(search, pagination) ==
  IF pagination.pageNumber \in 1..Len(ServerPages(search))
  THEN ServerPages(search)[pagination.pageNumber]
  ELSE <<>>

VARIABLES
  shape,          \* prop: which field getItems reads ("items" or "edges")
  mergeMode,      \* prop: mergeItems ("append" = default, "dedup" = README example)
  skip,           \* prop: skip
  debounceDelay,  \* prop: debounceTime, in ticks
  mounted,        \* the component that calls the hook is mounted
  scroll,         \* the scroll event handed to checkHasBottomReached and its result
  searchValue,    \* useState<string | null>
  pending,        \* debounce: lastArgs of the armed timer (absent or one raw value)
  timeLeft,       \* debounce: ticks until the armed timer expires
  oqVars,         \* Apollo: the search key in the query's current variables
  status,         \* Apollo: networkStatus of the query
  oqError,        \* Apollo: the query has an error
  cache,          \* Apollo: cached response per variables
  baseInFlight,   \* Apollo: the base request in flight (absent or one search key)
  moreInFlight,   \* Apollo: fetchMore requests in flight
  view,           \* values captured by the last render
  loads,          \* number of fetchMore requests issued so far
  last,           \* history: the last completion of a request
  user,           \* history: the last call of a search handler, reset or loadNextPage
  burst,          \* history: the onSearch calls since the debounce timer was armed
  staleLoad,      \* history: loadNextPage was called on a render that was out of date
  effect,         \* useEffect: cleanups (onSearch.cancel()) React has still to run
  select          \* InfiniteSelect around the hook: the mergeItems its caller supplies, open

vars == <<shape, mergeMode, skip, debounceDelay, mounted, scroll, searchValue, pending, timeLeft, oqVars, status,
          oqError, cache, baseInFlight, moreInFlight, view, loads, last, user,
          burst, staleLoad, select, effect>>

\* the props of the hook, and the component that passes them
props == <<shape, mergeMode, skip, select>>

\* what the handlers of the hook and the completions of its requests leave alone
outer == <<debounceDelay, mounted, scroll, effect>>

\* ------------------------------------------------------------------------
\* Caller-supplied extractors and merge
\* ------------------------------------------------------------------------
\* getItems prop: data.getUsers.items, or data.users.edges.map(e => e.node)
GetItems(data) == IF shape = "items" THEN data.items ELSE data.edges

\* getPagination prop: data.getUsers.pagination
GetPagination(data) == data.pagination

\* the response the server sends for the query document of this shape
ServerResponse(search, pagination) ==
  [has        |-> TRUE,
   items      |-> IF shape = "items" THEN ServerList(search, pagination) ELSE <<>>,
   edges      |-> IF shape = "edges" THEN ServerList(search, pagination) ELSE <<>>,
   pagination |-> ServerPagination(search, pagination)]

RECURSIVE Contains(_, _)
Contains(seq, x) ==
  IF seq = <<>> THEN FALSE ELSE Head(seq) = x \/ Contains(Tail(seq), x)

RECURSIVE FilterNotIn(_, _)
FilterNotIn(incoming, existing) ==
  IF incoming = <<>> THEN <<>>
  ELSE IF Contains(existing, Head(incoming)) THEN FilterNotIn(Tail(incoming), existing)
  ELSE <<Head(incoming)>> \o FilterNotIn(Tail(incoming), existing)

\* README: existing followed by the incoming items whose id is not yet present
DedupMerge(existing, incoming) == existing \o FilterNotIn(incoming, existing)

\* default (existing, incoming) => [...existing, ...incoming]
DefaultMerge(existing, incoming) == existing \o incoming

MergeItems(existing, incoming) ==
  IF mergeMode = "append" THEN DefaultMerge(existing, incoming)
  ELSE DedupMerge(existing, incoming)

\* ------------------------------------------------------------------------
\* Derived state of a render
\* ------------------------------------------------------------------------
Items(data) == IF data.has THEN GetItems(data) ELSE <<>>

PaginationOrDefault(data) ==
  IF data.has THEN GetPagination(data)
  ELSE [EMPTY_PAGINATION EXCEPT !.pageNumber = DefaultPagination.pageNumber,
                                !.pageSize = DefaultPagination.pageSize]

Pagination(data) == IF data.has THEN GetPagination(data) ELSE EMPTY_PAGINATION

HasNextPageInclusive(data) == Pagination(data).pageNumber <= Pagination(data).totalPage

HasNextPage(data) == Pagination(data).pageNumber < Pagination(data).totalPage

IsFetchingInitialOnly(st) == st \in {"loading", "setVariables"}

\* useQuery's loading: a request of the query is in flight
IsFetching(st) == st \in {"loading", "setVariables", "fetchMore"}

IsFetchingNextPage(st) == st = "fetchMore"

\* ------------------------------------------------------------------------
\* The page merge handed to fetchMore
\* ------------------------------------------------------------------------
patchQueryResultKeepPagination(prev, next, mergedItems, nextPagination) ==
  [next EXCEPT !.items = mergedItems, !.pagination = prev.pagination]

\* { ...next, [key]: { ...next[key], items: mergedItems, pagination: nextPagination } }
patchQueryResult(prev, next, mergedItems, nextPagination) ==
  [next EXCEPT !.items = mergedItems, !.pagination = nextPagination]

\* updateQuery with a fetchMoreResult
updateQuery(prev, fetchMoreResult) ==
  patchQueryResult(prev, fetchMoreResult,
                   MergeItems(GetItems(prev), GetItems(fetchMoreResult)),
                   GetPagination(fetchMoreResult))

\* Apollo writes the fields the query document selects; others are dropped
WriteQuery(data) ==
  IF shape = "items" THEN [data EXCEPT !.edges = <<>>]
  ELSE [data EXCEPT !.items = <<>>]

\* the guard of loadNextPage, on the values its closure captured
LoadGuardNoFetching(v) == HasNextPage(v.data)

LoadGuardNoHasNext(v) ==
  /\ ~IsFetchingNextPage(v.status)
  /\ ~IsFetching(v.status)

LoadGuard(v) ==
  /\ HasNextPage(v.data)
  /\ ~IsFetchingNextPage(v.status)
  /\ ~IsFetching(v.status)

NextPageRequestAfterDefault(v) ==
  [search     |-> v.searchValue,
   pagination |-> [pageSize   |-> Pagination(v.data).pageSize,
                   pageNumber |-> DefaultPagination.pageNumber + 1]]

\* the variables loadNextPage passes to fetchMore
NextPageRequest(v) ==
  [search     |-> v.searchValue,
   pagination |-> [pageSize   |-> Pagination(v.data).pageSize,
                   pageNumber |-> Pagination(v.data).pageNumber + 1]]

\* what a render returns for the current state of the hook and of the query
Snapshot(sv, st, err, data) ==
  [searchValue |-> sv, data |-> data, status |-> st, error |-> err]

Synced ==
  /\ view = Snapshot(searchValue, status, oqError, cache[oqVars])
  /\ skip \/ oqVars = searchValue

\* what updateQuery does with the two responses: without a fetchMoreResult it
\* returns prev; otherwise it reads both with the extractors, which throw on a
\* response that is not there
updateQueryOutcomeNoCheck(prev, fetchMoreResult) ==
  IF prev.has /\ fetchMoreResult.has THEN "merged" ELSE "threw"

updateQueryOutcome(prev, fetchMoreResult) ==
  IF ~fetchMoreResult.has THEN "kept"
  ELSE IF prev.has THEN "merged"
  ELSE "threw"

\* ------------------------------------------------------------------------
\* checkHasBottomReached
\* ------------------------------------------------------------------------
DEFAULT_BOTTOM_OFFSET == 30

\* event.currentTarget of the scroll events tried
ScrollEvents ==
  [scrollHeight : {400, 420, 430, 431, 1000},
   scrollTop    : {0, 1, 29, 30, 31, 569, 570, 571, 599, 600},
   clientHeight : {400}]

\* the bottomOffset argument: left out, or a number of pixels
BottomOffsets == { <<>>, <<0>>, <<30>>, <<31>>, <<1000>> }

NoScroll == [event |-> <<>>, bottomOffset |-> <<>>, reached |-> <<>>]

\* unmounted: the hook was unmounted and the cleanup that cancels its debounced
\* function has not run yet; replaced: the armed timer (argument, ticks left) of
\* a debounced function useMemo has replaced and the cleanup has not cancelled yet
NoEffect == [unmounted |-> FALSE, replaced |-> <<>>]

\* the hook called directly, without InfiniteSelect around it
NoSelect == [mergeItems |-> "absent", open |-> FALSE]

checkHasBottomReachedStrict(event, bottomOffsetArg) ==
  LET bottomOffset == IF bottomOffsetArg = <<>> THEN DEFAULT_BOTTOM_OFFSET
                      ELSE bottomOffsetArg[1]
  IN event.scrollHeight - event.scrollTop - event.clientHeight < bottomOffset

checkHasBottomReached(event, bottomOffsetArg) ==
  LET bottomOffset == IF bottomOffsetArg = <<>> THEN DEFAULT_BOTTOM_OFFSET
                      ELSE bottomOffsetArg[1]
  IN event.scrollHeight - event.scrollTop - event.clientHeight <= bottomOffset

\* ------------------------------------------------------------------------
\* History records
\* ------------------------------------------------------------------------
\* op: which request completed and how; vars: the variables the query had then;
\* search, page: the search key and the page the request was made for (page 0:
\* the base request); prev, inc: the two responses handed to updateQuery
Event(op, v, search) ==
  [op |-> op, res |-> "none", vars |-> v, search |-> search, page |-> 0,
   prev |-> NoData, inc |-> NoData]

\* race: whether a page request was in flight when the call was made ("none"),
\* and if so whether one was for another search key than the call leaves
\* ("other") or all were for that key ("same"); note: what the call did (a
\* search handler "changed" searchValue or left it the "same", or was called
\* "unsynced", on a render that did not show the current state; reset
\* "cancelled" an armed timer or found it "idle"; loadNextPage "issued" a
\* request or "dropped" the call; a change of debounceTime "replaced" a function
\* with a call pending and the unmount left one "pending"; a call delivered
\* after the unmount was "dropped")
Race(search) ==
  IF moreInFlight = <<>> THEN "none"
  ELSE IF \E i \in 1..Len(moreInFlight) : moreInFlight[i].search # search THEN "other"
  ELSE "same"

UserOp(op, search, note) ==
  [op |-> op, race |-> Race(search), note |-> note]

Changed(new) ==
  IF ~Synced THEN "unsynced" ELSE IF new # searchValue THEN "changed" ELSE "same"

\* calls: onSearch calls since the timer was armed; lastArg: the argument of the
\* latest one; invoked: the arguments the timer has delivered for them;
\* rendered: the hook re-rendered while the timer was armed
NoBurst == [calls |-> 0, lastArg |-> <<>>, invoked |-> <<>>, rendered |-> FALSE]

\* ------------------------------------------------------------------------
\* Initial state: the hook has rendered once
\* ------------------------------------------------------------------------
Init ==
  /\ shape \in {"items", "edges"}
  /\ mergeMode \in {"append", "dedup"}
  /\ skip \in BOOLEAN
  /\ debounceDelay = DebounceTicks
  /\ mounted = TRUE
  /\ scroll = NoScroll
  /\ searchValue = Null
  /\ pending = <<>>
  /\ timeLeft = 0
  /\ oqVars = Null
  /\ status = IF skip THEN "ready" ELSE "loading"
  /\ oqError = FALSE
  /\ cache = [k \in SearchKeys |-> NoData]
  /\ baseInFlight = IF skip THEN <<>> ELSE <<Null>>
  /\ moreInFlight = <<>>
  /\ view = Snapshot(Null, status, FALSE, NoData)
  /\ loads = 0
  /\ last = Event("init", Null, Null)
  /\ user = [op |-> "none", race |-> "none", note |-> "none"]
  /\ burst = NoBurst
  /\ staleLoad = FALSE
  /\ select = NoSelect
  /\ effect = NoEffect

\* ------------------------------------------------------------------------
\* Search handlers and reset
\* ------------------------------------------------------------------------
\* setSearchValue(value.trim() || null); React drops the update of a component
\* that is unmounted, so a call after the unmount leaves searchValue as it is
OnSearchImmediate(value) ==
  /\ searchValue' = IF mounted THEN TrimOrNull(value) ELSE searchValue
  /\ user' = UserOp("onSearchImmediate", TrimOrNull(value),
                    IF mounted THEN Changed(TrimOrNull(value)) ELSE "dropped")
  /\ UNCHANGED <<props, outer, staleLoad, pending, timeLeft, oqVars, status, oqError, cache,
                 baseInFlight, moreInFlight, view, loads, last, burst>>

\* lodash debounce, trailing edge: the call replaces lastArgs and re-arms the wait
DebouncedCallKeepFirst(p, value) == IF p = <<>> THEN <<value>> ELSE p

DebouncedCall(p, value) == <<value>>

OnSearchLeading(value) ==
  /\ burst.calls < MaxBurst \/ pending = <<>>
  /\ searchValue' = IF pending = <<>> /\ mounted THEN TrimOrNull(value) ELSE searchValue
  /\ pending' = DebouncedCall(pending, value)
  /\ timeLeft' = debounceDelay
  /\ burst' = [calls    |-> IF pending = <<>> THEN 1 ELSE burst.calls + 1,
               lastArg  |-> <<value>>,
               invoked  |-> IF pending = <<>> THEN <<>> ELSE burst.invoked,
               rendered |-> IF pending = <<>> THEN FALSE ELSE burst.rendered]
  /\ user' = UserOp("onSearch", searchValue, "armed")
  /\ UNCHANGED <<props, outer, staleLoad, oqVars, status, oqError, cache,
                 baseInFlight, moreInFlight, view, loads, last>>

\* the function stays callable after the unmount and arms its timer as before
OnSearch(value) ==
  /\ burst.calls < MaxBurst \/ pending = <<>>
  /\ pending' = DebouncedCall(pending, value)
  /\ timeLeft' = debounceDelay
  /\ burst' = [calls    |-> IF pending = <<>> THEN 1 ELSE burst.calls + 1,
               lastArg  |-> <<value>>,
               invoked  |-> IF pending = <<>> THEN <<>> ELSE burst.invoked,
               rendered |-> IF pending = <<>> THEN FALSE ELSE burst.rendered]
  /\ user' = UserOp("onSearch", searchValue, "armed")
  /\ UNCHANGED <<props, outer, staleLoad, searchValue, oqVars, status, oqError, cache,
                 baseInFlight, moreInFlight, view, loads, last>>

\* time passes while a debounce timer is armed, for every armed timer
Tick ==
  /\ \/ pending # <<>> /\ timeLeft > 0
     \/ effect.replaced # <<>> /\ effect.replaced[1].timeLeft > 0
  /\ timeLeft' = IF pending # <<>> /\ timeLeft > 0 THEN timeLeft - 1 ELSE timeLeft
  /\ effect' = IF effect.replaced # <<>> /\ effect.replaced[1].timeLeft > 0
                THEN [effect EXCEPT !.replaced[1].timeLeft = @ - 1]
                ELSE effect
  /\ UNCHANGED <<props, debounceDelay, mounted, scroll, staleLoad, searchValue, pending,
                 oqVars, status, oqError, cache, baseInFlight, moreInFlight, view, loads,
                 last, user, burst>>

\* the timer expires: onSearchImmediate(lastArgs); after the unmount React drops
\* the setSearchValue
DebounceFire ==
  /\ pending # <<>>
  /\ timeLeft = 0
  /\ searchValue' = IF mounted THEN TrimOrNull(pending[1]) ELSE searchValue
  /\ pending' = <<>>
  /\ burst' = [burst EXCEPT !.invoked = Append(burst.invoked, pending[1])]
  /\ user' = UserOp("debounced", TrimOrNull(pending[1]),
                    IF mounted THEN Changed(TrimOrNull(pending[1])) ELSE "dropped")
  /\ UNCHANGED <<props, outer, staleLoad, timeLeft, oqVars, status, oqError, cache,
                 baseInFlight, moreInFlight, view, loads, last>>

\* the timer of a replaced debounced function expires before its cleanup has
\* run: the function calls onSearchImmediate(lastArgs) all the same
ReplacedFire ==
  /\ effect.replaced # <<>>
  /\ effect.replaced[1].timeLeft = 0
  /\ searchValue' = IF mounted THEN TrimOrNull(effect.replaced[1].arg) ELSE searchValue
  /\ effect' = [effect EXCEPT !.replaced = <<>>]
  /\ user' = UserOp("replaced", TrimOrNull(effect.replaced[1].arg),
                    Changed(TrimOrNull(effect.replaced[1].arg)))
  /\ UNCHANGED <<props, debounceDelay, mounted, scroll, staleLoad, pending, timeLeft, oqVars,
                 status, oqError, cache, baseInFlight, moreInFlight, view, loads, last, burst>>

\* React runs the cleanup of the effect: onSearch.cancel() on the function of
\* the render the effect belongs to
EffectCleanup ==
  /\ effect # NoEffect
  /\ effect' = NoEffect
  /\ IF effect.unmounted
     THEN /\ pending' = <<>>
          /\ timeLeft' = 0
          /\ burst' = NoBurst
     ELSE UNCHANGED <<pending, timeLeft, burst>>
  /\ UNCHANGED <<props, debounceDelay, mounted, scroll, staleLoad, searchValue, oqVars,
                 status, oqError, cache, baseInFlight, moreInFlight, view, loads, last, user>>

\* onSearch.cancel(), called by the owner on the function the hook returned
OnSearchCancel ==
  /\ pending' = <<>>
  /\ timeLeft' = 0
  /\ burst' = NoBurst
  /\ user' = UserOp("cancel", searchValue, IF pending # <<>> THEN "cancelled" ELSE "idle")
  /\ UNCHANGED <<props, outer, staleLoad, searchValue, oqVars, status, oqError, cache,
                 baseInFlight, moreInFlight, view, loads, last>>

\* onSearch.flush(): an armed timer is cleared and its call made at once
OnSearchFlush ==
  /\ searchValue' = IF pending # <<>> /\ mounted THEN TrimOrNull(pending[1]) ELSE searchValue
  /\ pending' = <<>>
  /\ timeLeft' = 0
  /\ burst' = IF pending # <<>>
               THEN [burst EXCEPT !.invoked = Append(burst.invoked, pending[1])]
               ELSE burst
  /\ user' = UserOp("flush", IF pending # <<>> THEN TrimOrNull(pending[1]) ELSE searchValue,
                    IF pending = <<>> THEN "idle"
                    ELSE IF mounted THEN Changed(TrimOrNull(pending[1])) ELSE "dropped")
  /\ UNCHANGED <<props, outer, staleLoad, oqVars, status, oqError, cache,
                 baseInFlight, moreInFlight, view, loads, last>>

ResetNoCancel ==
  /\ searchValue' = IF mounted THEN Null ELSE searchValue
  /\ user' = UserOp("reset", Null, IF pending # <<>> THEN "cancelled" ELSE "idle")
  /\ UNCHANGED <<props, outer, staleLoad, pending, timeLeft, oqVars, status, oqError, cache,
                 baseInFlight, moreInFlight, view, loads, last, burst>>

ResetToEmpty ==
  /\ pending' = <<>>
  /\ timeLeft' = 0
  /\ searchValue' = IF mounted THEN Some(<<>>) ELSE searchValue
  /\ burst' = NoBurst
  /\ user' = UserOp("reset", Null, IF pending # <<>> THEN "cancelled" ELSE "idle")
  /\ UNCHANGED <<props, outer, staleLoad, oqVars, status, oqError, cache,
                 baseInFlight, moreInFlight, view, loads, last>>

\* onSearch.cancel(); setSearchValue(null); after the unmount React drops the
\* update and the call only cancels the timer
Reset ==
  /\ pending' = <<>>
  /\ timeLeft' = 0
  /\ searchValue' = IF mounted THEN Null ELSE searchValue
  /\ burst' = NoBurst
  /\ user' = UserOp("reset", Null, IF pending # <<>> THEN "cancelled" ELSE "idle")
  /\ UNCHANGED <<props, outer, staleLoad, oqVars, status, oqError, cache,
                 baseInFlight, moreInFlight, view, loads, last>>

\* ------------------------------------------------------------------------
\* loadNextPage
\* ------------------------------------------------------------------------
\* ObservableQuery.fetchMore: the status becomes fetchMore at once, the request
\* remembers the status it replaced
FetchMore(request) ==
  /\ moreInFlight' = Append(moreInFlight, [search     |-> request.search,
                                            pagination |-> request.pagination,
                                            orig       |-> status])
  /\ status' = "fetchMore"
  /\ loads' = loads + 1

\* the callback tests the values of its render only; it stays callable after
\* the unmount
LoadNextPage ==
  /\ LoadGuard(view) => loads < MaxLoads
  /\ IF LoadGuard(view)
     THEN FetchMore(NextPageRequest(view))
     ELSE UNCHANGED <<moreInFlight, status, loads>>
  /\ user' = UserOp("loadNextPage", searchValue, IF LoadGuard(view) THEN "issued" ELSE "dropped")
  /\ staleLoad' = (staleLoad \/ ~Synced)
  /\ UNCHANGED <<props, outer, searchValue, pending, timeLeft, oqVars, oqError, cache,
                 baseInFlight, view, last, burst>>

\* ------------------------------------------------------------------------
\* Render: useQuery sees buildVariables(defaultPagination, searchValue)
\* ------------------------------------------------------------------------
SetVariablesRetry ==
  IF skip \/ (searchValue = oqVars /\ ~oqError)
  THEN UNCHANGED <<oqVars, status, oqError, baseInFlight>>
  ELSE /\ oqVars' = searchValue
       /\ oqError' = FALSE
       /\ status' = IF cache[searchValue].has THEN "ready" ELSE "setVariables"
       /\ baseInFlight' = IF cache[searchValue].has THEN <<>> ELSE <<searchValue>>

SetVariablesNoSkip ==
  IF searchValue = oqVars
  THEN UNCHANGED <<oqVars, status, oqError, baseInFlight>>
  ELSE /\ oqVars' = searchValue
       /\ oqError' = FALSE
       /\ status' = IF cache[searchValue].has THEN "ready" ELSE "setVariables"
       /\ baseInFlight' = IF cache[searchValue].has THEN <<>> ELSE <<searchValue>>

\* cache-first: new variables are answered from the cache when it has them
\* and fetched otherwise; unchanged variables issue nothing
SetVariables ==
  IF skip \/ searchValue = oqVars
  THEN UNCHANGED <<oqVars, status, oqError, baseInFlight>>
  ELSE /\ oqVars' = searchValue
       /\ oqError' = FALSE
       /\ status' = IF cache[searchValue].has THEN "ready" ELSE "setVariables"
       /\ baseInFlight' = IF cache[searchValue].has THEN <<>> ELSE <<searchValue>>

RenderCancels ==
  /\ mounted
  /\ ~Synced
  /\ SetVariables
  /\ view' = Snapshot(searchValue, status', oqError', cache[oqVars'])
  /\ pending' = <<>>
  /\ timeLeft' = 0
  /\ burst' = NoBurst
  /\ effect' = [effect EXCEPT !.replaced = <<>>]
  /\ UNCHANGED <<props, debounceDelay, mounted, scroll, staleLoad, searchValue, cache,
                 moreInFlight, loads, last, user>>

\* a re-render for a change of the hook's state or of the query's result: the
\* memoised debounced function is kept; React runs the cleanups that are still
\* due before it renders
Render ==
  /\ mounted
  /\ ~Synced
  /\ SetVariables
  /\ view' = Snapshot(searchValue, status', oqError', cache[oqVars'])
  /\ burst' = IF pending # <<>> THEN [burst EXCEPT !.rendered = TRUE] ELSE burst
  /\ effect' = [effect EXCEPT !.replaced = <<>>]
  /\ UNCHANGED <<props, debounceDelay, mounted, scroll, staleLoad, searchValue, pending,
                 timeLeft, cache, moreInFlight, loads, last, user>>

\* the owner re-renders the hook with another debounceTime: useMemo builds a new
\* debounced function, not armed, which the hook returns from now on; the one it
\* replaces keeps its timer until React runs the effect's cleanup, which is
\* after the render and may be in a later task
SetDebounceTime(delay) ==
  /\ mounted
  /\ delay # debounceDelay
  /\ debounceDelay' = delay
  /\ effect' = [effect EXCEPT !.replaced =
                  IF pending # <<>> THEN <<[arg |-> pending[1], timeLeft |-> timeLeft]>>
                  ELSE <<>>]
  /\ pending' = <<>>
  /\ timeLeft' = 0
  /\ burst' = NoBurst
  /\ SetVariables
  /\ view' = Snapshot(searchValue, status', oqError', cache[oqVars'])
  /\ user' = UserOp("debounceTime", searchValue, IF pending # <<>> THEN "replaced" ELSE "idle")
  /\ UNCHANGED <<props, mounted, scroll, staleLoad, searchValue, cache, moreInFlight,
                 loads, last>>

\* ------------------------------------------------------------------------
\* Unmount: the owner is gone; onSearch.cancel() is the cleanup of an effect,
\* which React runs after the unmount and maybe in a later task. The requests
\* in flight still complete.
\* ------------------------------------------------------------------------
Unmount ==
  /\ mounted
  /\ mounted' = FALSE
  /\ effect' = [unmounted |-> TRUE, replaced |-> <<>>]
  /\ user' = UserOp("unmount", searchValue, IF pending # <<>> THEN "pending" ELSE "idle")
  /\ UNCHANGED <<props, debounceDelay, scroll, staleLoad, searchValue, pending, timeLeft,
                 oqVars, status, oqError, cache, baseInFlight, moreInFlight, view, loads,
                 last, burst>>

\* ------------------------------------------------------------------------
\* Completion of the requests in flight
\* ------------------------------------------------------------------------
\* the base query's response is written under its variables
BaseDone ==
  /\ baseInFlight # <<>>
  /\ cache' = [cache EXCEPT ![baseInFlight[1]] =
                 WriteQuery(ServerResponse(baseInFlight[1], DefaultPagination))]
  /\ status' = "ready"
  /\ oqError' = FALSE
  /\ baseInFlight' = <<>>
  /\ last' = Event("baseDone", oqVars, baseInFlight[1])
  /\ UNCHANGED <<props, outer, staleLoad, searchValue, pending, timeLeft, oqVars, moreInFlight,
                 view, loads, user, burst>>

BaseFail ==
  /\ baseInFlight # <<>>
  /\ status' = "error"
  /\ oqError' = TRUE
  /\ baseInFlight' = <<>>
  /\ last' = Event("baseFail", oqVars, baseInFlight[1])
  /\ UNCHANGED <<props, outer, staleLoad, searchValue, pending, timeLeft, oqVars, cache, moreInFlight,
                 view, loads, user, burst>>

RemoveAt(seq, i) == SubSeq(seq, 1, i - 1) \o SubSeq(seq, i + 1, Len(seq))

\* a page request settles: cache.updateQuery({ variables: this.variables },
\* updateQuery) runs against the entry of the query's current variables, and the
\* status fetchMore gives way to the one the request replaced
FetchMoreSettled(i, fetchMoreResult) ==
  LET request == moreInFlight[i]
      prev == cache[oqVars]
      outcome == updateQueryOutcome(prev, fetchMoreResult)
  IN /\ moreInFlight' = RemoveAt(moreInFlight, i)
     /\ status' = IF status = "fetchMore" THEN request.orig ELSE status
     /\ cache' = IF outcome = "merged"
                 THEN [cache EXCEPT ![oqVars] = WriteQuery(updateQuery(prev, fetchMoreResult))]
                 ELSE cache
     /\ last' = [Event(IF fetchMoreResult.has THEN "moreDone" ELSE "moreEmpty",
                       oqVars, request.search) EXCEPT
                   !.res = outcome,
                   !.page = request.pagination.pageNumber,
                   !.prev = prev,
                   !.inc = fetchMoreResult]
     /\ UNCHANGED <<props, outer, staleLoad, searchValue, pending, timeLeft, oqVars, oqError,
                    baseInFlight, view, loads, user, burst>>

\* the page arrives
MoreDone(i) ==
  FetchMoreSettled(i, ServerResponse(moreInFlight[i].search, moreInFlight[i].pagination))

\* the request settles without data: updateQuery gets no fetchMoreResult
MoreEmpty(i) == FetchMoreSettled(i, NoData)

MoreFailAdvances(i) ==
  /\ moreInFlight' = RemoveAt(moreInFlight, i)
  /\ status' = IF status = "fetchMore" THEN "ready" ELSE status
  /\ cache' = IF cache[oqVars].has
              THEN [cache EXCEPT ![oqVars].pagination.pageNumber =
                                   moreInFlight[i].pagination.pageNumber]
              ELSE cache
  /\ last' = [Event("moreFail", oqVars, moreInFlight[i].search) EXCEPT
                !.page = moreInFlight[i].pagination.pageNumber]
  /\ UNCHANGED <<props, outer, staleLoad, searchValue, pending, timeLeft, oqVars, oqError,
                 baseInFlight, view, loads, user, burst>>

\* the page request fails: no merge, the query falls back to what the cache holds
MoreFail(i) ==
  /\ moreInFlight' = RemoveAt(moreInFlight, i)
  /\ status' = IF status = "fetchMore" THEN "ready" ELSE status
  /\ last' = [Event("moreFail", oqVars, moreInFlight[i].search) EXCEPT
                !.page = moreInFlight[i].pagination.pageNumber]
  /\ UNCHANGED <<props, outer, staleLoad, searchValue, pending, timeLeft, oqVars, oqError, cache,
                 baseInFlight, view, loads, user, burst>>

Next ==
  \/ \E value \in RawInputs : OnSearchImmediate(value)
  \/ \E value \in RawInputs : OnSearch(value)
  \/ Tick
  \/ DebounceFire
  \/ Reset
  \/ LoadNextPage
  \/ Render
  \/ BaseDone
  \/ BaseFail
  \/ \E i \in 1..Len(moreInFlight) : MoreDone(i)
  \/ \E i \in 1..Len(moreInFlight) : MoreEmpty(i)
  \/ \E i \in 1..Len(moreInFlight) : MoreFail(i)
  \/ \E delay \in 1..DebounceTicks : SetDebounceTime(delay)
  \/ Unmount
  \/ ReplacedFire
  \/ EffectCleanup
  \/ OnSearchCancel
  \/ OnSearchFlush

Spec == Init /\ [][Next]_vars

\* The debounce timer and the page requests do not interact: the timer only ever
\* calls onSearchImmediate.  Paging is explored with the immediate handler as the
\* one source of search changes, the timer without page requests.
NextPaging ==
  \/ \E value \in RawInputs : OnSearchImmediate(value)
  \/ Reset
  \/ LoadNextPage
  \/ Render
  \/ BaseDone
  \/ BaseFail
  \/ \E i \in 1..Len(moreInFlight) : MoreDone(i)
  \/ \E i \in 1..Len(moreInFlight) : MoreEmpty(i)
  \/ \E i \in 1..Len(moreInFlight) : MoreFail(i)

SpecPaging == Init /\ [][NextPaging]_vars

NextSearch ==
  \/ \E value \in RawInputs : OnSearchImmediate(value)
  \/ \E value \in RawInputs : OnSearch(value)
  \/ Tick
  \/ DebounceFire
  \/ Reset
  \/ Render
  \/ BaseDone
  \/ BaseFail
  \/ OnSearchCancel
  \/ OnSearchFlush

SpecSearch == Init /\ [][NextSearch]_vars

\* The debounced function over the life of its owner: a change of debounceTime
\* replaces it, the unmount leaves it behind, and React runs the cleanups
\* later; the callbacks the hook returned stay callable throughout. One
\* response shape, the default merge, no skip; onSearch is called with "a" and
\* only while no call is pending.
OnSearchOnce == pending = <<>> /\ OnSearch(<<"a">>)

InitTeardown == Init /\ shape = "items" /\ mergeMode = "append" /\ skip = FALSE

NextTeardown ==
  \/ OnSearchOnce
  \/ Tick
  \/ DebounceFire
  \/ ReplacedFire
  \/ EffectCleanup
  \/ Reset
  \/ LoadNextPage
  \/ Render
  \/ BaseDone
  \/ \E i \in 1..Len(moreInFlight) : MoreDone(i)
  \/ \E delay \in 1..DebounceTicks : SetDebounceTime(delay)
  \/ Unmount

SpecTeardown == InitTeardown /\ [][NextTeardown]_vars

\* A run of page loads with the search value left alone: loadNextPage, the
\* renders and the completions of the requests.
NextRun ==
  \/ LoadNextPage
  \/ Render
  \/ BaseDone
  \/ \E i \in 1..Len(moreInFlight) : MoreDone(i)
  \/ \E i \in 1..Len(moreInFlight) : MoreFail(i)

SpecRun == Init /\ [][NextRun]_vars

\* A caller that picks the search value before anything is loaded and from
\* then on calls loadNextPage whenever the hook has rendered and is idle; every
\* request succeeds, and every step that can be taken is taken in the end.
SearchBeforeLoad(value) ==
  /\ loads = 0
  /\ \A k \in SearchKeys : ~cache[k].has
  /\ OnSearchImmediate(value)

LoadNextPageWhenIdle == Synced /\ ~IsFetching(view.status) /\ LoadNextPage

NextIdleRun ==
  \/ \E value \in RawInputs : SearchBeforeLoad(value)
  \/ LoadNextPageWhenIdle
  \/ Render
  \/ BaseDone
  \/ \E i \in 1..Len(moreInFlight) : MoreDone(i)

FairIdleRun ==
  /\ WF_vars(LoadNextPageWhenIdle)
  /\ WF_vars(Render)
  /\ WF_vars(BaseDone)
  /\ WF_vars(\E i \in 1..Len(moreInFlight) : MoreDone(i))

SpecIdleRun == Init /\ [][NextIdleRun]_vars /\ FairIdleRun

\* Paging and the timer together, for one response shape and the default
\* merge: onSearch is called with "a" and only while no call is pending.
InitMixed == Init /\ shape = "items" /\ mergeMode = "append" /\ skip = FALSE

NextMixed ==
  \/ \E value \in RawInputs : OnSearchImmediate(value)
  \/ OnSearchOnce
  \/ Tick
  \/ DebounceFire
  \/ OnSearchFlush
  \/ Reset
  \/ LoadNextPage
  \/ Render
  \/ BaseDone
  \/ \E i \in 1..Len(moreInFlight) : MoreDone(i)
  \/ \E i \in 1..Len(moreInFlight) : MoreFail(i)

SpecMixed == InitMixed /\ [][NextMixed]_vars

\* The hook with skip set: every handler, the timer and the renders; a request
\* would show in baseInFlight, moreInFlight and loads.
InitSkip == Init /\ skip = TRUE

NextSkip ==
  \/ \E value \in RawInputs : OnSearchImmediate(value)
  \/ \E value \in RawInputs : OnSearch(value)
  \/ Tick
  \/ DebounceFire
  \/ Reset
  \/ LoadNextPage
  \/ Render
  \/ \E delay \in 1..DebounceTicks : SetDebounceTime(delay)
  \/ Unmount
  \/ ReplacedFire
  \/ EffectCleanup
  \/ OnSearchCancel
  \/ OnSearchFlush

SpecSkip == InitSkip /\ [][NextSkip]_vars

\* ------------------------------------------------------------------------
\* InfiniteSelect: the component around the hook
\* ------------------------------------------------------------------------
\* the mergeItems a caller of InfiniteSelect may try to supply
CallerMerges == {"absent", "dedup"}

InfiniteSelectForwards(callerMerge) ==
  IF callerMerge = "absent" THEN "append" ELSE callerMerge

\* the mergeItems the hook works with under InfiniteSelect: the component
\* destructures no mergeItems and passes none to the hook, so the hook's
\* default, (existing, incoming) => [...existing, ...incoming], applies
InfiniteSelectMergeItems(callerMerge) == "append"

\* the scroll events the list receives: 600, 30 and 0 pixels above the bottom
SelectScrolls ==
  { e \in ScrollEvents : e.scrollHeight = 1000 /\ e.scrollTop \in {0, 570, 600} }

\* InfiniteSelect rendered once, closed, by a caller that supplies a merge or none
InitSelect ==
  /\ shape \in {"items", "edges"}
  /\ select \in [mergeItems : CallerMerges, open : {FALSE}]
  /\ mergeMode = InfiniteSelectMergeItems(select.mergeItems)
  /\ skip = FALSE
  /\ debounceDelay = DebounceTicks
  /\ mounted = TRUE
  /\ scroll = NoScroll
  /\ searchValue = Null
  /\ pending = <<>>
  /\ timeLeft = 0
  /\ oqVars = Null
  /\ status = "loading"
  /\ oqError = FALSE
  /\ cache = [k \in SearchKeys |-> NoData]
  /\ baseInFlight = <<Null>>
  /\ moreInFlight = <<>>
  /\ view = Snapshot(Null, status, FALSE, NoData)
  /\ loads = 0
  /\ last = Event("init", Null, Null)
  /\ user = [op |-> "none", race |-> "none", note |-> "none"]
  /\ burst = NoBurst
  /\ staleLoad = FALSE
  /\ effect = NoEffect

\* setOpen(value): a click on the input opens the list, a blur closes it
SetOpen(value) ==
  /\ mounted
  /\ select' = [select EXCEPT !.open = value]
  /\ UNCHANGED <<shape, mergeMode, skip, outer, staleLoad, searchValue, pending, timeLeft,
                 oqVars, status, oqError, cache, baseInFlight, moreInFlight, view, loads,
                 last, user, burst>>

\* handleScroll of the open list; InfiniteSelect is given no bottomOffset here
HandleScroll(event) ==
  /\ mounted
  /\ select.open
  /\ IF checkHasBottomReached(event, <<>>) THEN LoadNextPage ELSE UNCHANGED vars

\* the input's onChange is the hook's debounced onSearch; the user types "a",
\* one keystroke per debounce window
NextSelect ==
  \/ \E value \in BOOLEAN : SetOpen(value)
  \/ OnSearchOnce
  \/ Tick
  \/ DebounceFire
  \/ \E event \in SelectScrolls : HandleScroll(event)
  \/ Render
  \/ BaseDone
  \/ \E i \in 1..Len(moreInFlight) : MoreDone(i)

SpecSelect == InitSelect /\ [][NextSelect]_vars

\* checkHasBottomReached on its own: the arguments are drawn at the start and
\* the one step applies the function to them
InitScroll ==
  /\ shape = "items"
  /\ mergeMode = "append"
  /\ skip = TRUE
  /\ debounceDelay = DebounceTicks
  /\ mounted = TRUE
  /\ scroll \in [event : {<<e>> : e \in ScrollEvents}, bottomOffset : BottomOffsets,
                  reached : {<<>>}]
  /\ searchValue = Null
  /\ pending = <<>>
  /\ timeLeft = 0
  /\ oqVars = Null
  /\ status = "ready"
  /\ oqError = FALSE
  /\ cache = [k \in SearchKeys |-> NoData]
  /\ baseInFlight = <<>>
  /\ moreInFlight = <<>>
  /\ view = Snapshot(Null, status, FALSE, NoData)
  /\ loads = 0
  /\ last = Event("init", Null, Null)
  /\ user = [op |-> "none", race |-> "none", note |-> "none"]
  /\ burst = NoBurst
  /\ staleLoad = FALSE
  /\ select = NoSelect
  /\ effect = NoEffect

OnScroll ==
  /\ scroll.event # <<>>
  /\ scroll.reached = <<>>
  /\ scroll' = [scroll EXCEPT
                  !.reached = <<checkHasBottomReached(scroll.event[1], scroll.bottomOffset)>>]
  /\ UNCHANGED <<props, debounceDelay, mounted, effect, staleLoad, searchValue, pending,
                 timeLeft, oqVars, status, oqError, cache, baseInFlight, moreInFlight, view,
                 loads, last, user, burst>>

NextScroll == OnScroll

SpecScroll == InitScroll /\ [][NextScroll]_vars

\* ------------------------------------------------------------------------
\* Claims
\* ------------------------------------------------------------------------
\* the render shows a settled query: nothing of it is loading
Settled == Synced /\ view.status = "ready" /\ view.data.has /\ ~staleLoad

\* the last completed request was a page whose merge was committed under the
\* variables the render shows
MergeShown ==
  /\ last.op = "moreDone"
  /\ last.res = "merged"
  /\ last.vars = oqVars
  /\ Synced

FirstPage(search) == ServerList(search, DefaultPagination)

FirstPagination(search) == ServerPagination(search, DefaultPagination)

\* C1: at most one page-advance (fetchMore) request is in flight at any time,
\* whatever the sequence of loadNextPage calls.
C1_AtMostOneInFlight == Len(moreInFlight) <= 1

\* C2: a loadNextPage call made while the hook reports hasNextPage false, or
\* isFetching or isFetchingNextPage true, issues no request and leaves the
\* items and the pagination as they were.
C2_NoOpGuard ==
  [][(LoadNextPage /\ (\/ ~HasNextPage(view.data)
                       \/ IsFetching(view.status)
                       \/ IsFetchingNextPage(view.status)))
       => UNCHANGED <<moreInFlight, baseInFlight, loads, status, cache, view>>]_vars

\* C2 witness: a call was dropped while a page request was in flight and a
\* further page existed.
C2_Witness ==
  /\ user.op = "loadNextPage"
  /\ user.note = "dropped"
  /\ HasNextPage(view.data)
  /\ IsFetchingNextPage(view.status)
  /\ Len(moreInFlight) = 1

\* C3: with the default merge, after a page merge the exposed data is the
\* existing items followed by the incoming items.
C3_DefaultMerge ==
  (MergeShown /\ mergeMode = "append")
    => Items(view.data) = Items(last.prev) \o Items(last.inc)

\* C4: after a page merge the exposed pagination is the pagination the incoming
\* page's response reported.
C4_IncomingPagination ==
  MergeShown => Pagination(view.data) = GetPagination(last.inc)

\* C4 witness: a merge is shown whose incoming pagination differs from the
\* pagination exposed before it.
C4_Witness ==
  /\ MergeShown
  /\ GetPagination(last.inc) # Pagination(last.prev)
  /\ Len(Items(last.prev)) > 0

\* C5: with a caller-supplied merge, after a page merge the exposed data is
\* mergeItems(existing, incoming); the de-duplicating merge of [1,2] and [2,3]
\* gives [1,2,3].
C5_CustomMerge ==
  (MergeShown /\ mergeMode = "dedup")
    => Items(view.data) = DedupMerge(Items(last.prev), Items(last.inc))

\* C6: once the query triggered by onSearchImmediate(x) has completed, the
\* exposed data is the first page for x and pageNumber is 1.
C6_SearchRestarts ==
  (user.op = "onSearchImmediate" /\ user.note = "changed"
     /\ user.race = "none" /\ Settled)
    => /\ Items(view.data) = FirstPage(searchValue)
       /\ Pagination(view.data).pageNumber = 1

\* C7: when the search value changes while a page request is in flight, then
\* once the new search's query has completed the exposed items and pagination
\* are those of the new search's first page.
C7_SearchSupersedes ==
  (user.op \in {"onSearchImmediate", "debounced"} /\ user.note = "changed"
     /\ user.race = "other" /\ Settled)
    => /\ Items(view.data) = FirstPage(searchValue)
       /\ Pagination(view.data) = FirstPagination(searchValue)

\* C8: after reset() and the completion of the query it causes, searchValue is
\* null, pagination is at defaultPagination and the items are the first page.
C8_ResetResult ==
  (user.op = "reset" /\ user.race = "none" /\ Settled)
    => /\ searchValue = Null
       /\ Pagination(view.data).pageNumber = DefaultPagination.pageNumber
       /\ Pagination(view.data).pageSize = DefaultPagination.pageSize
       /\ Items(view.data) = FirstPage(Null)

\* C9: after reset() a debounced search that was pending never takes effect:
\* until a handler is called again no timer is armed, searchValue stays null
\* and no query other than the one without a search is executed.
C9_ResetCancels ==
  user.op = "reset"
    => /\ pending = <<>>
       /\ searchValue = Null
       /\ baseInFlight # <<>> /\ Synced => baseInFlight = <<Null>>
       /\ Synced => oqVars = Null \/ skip

\* C9 witness: reset cancelled an armed timer and the hook has rendered since.
C9_Witness ==
  /\ user.op = "reset"
  /\ user.note = "cancelled"
  /\ Synced
  /\ ~skip

\* C10: onSearch calls made while the timer is armed coalesce: nothing is
\* delivered while the timer is armed, and once it has expired exactly one
\* call was delivered, with the argument of the last onSearch call, which is
\* what searchValue was set from.
C10_Coalescing ==
  /\ pending # <<>> => burst.invoked = <<>> /\ burst.calls > 0
  /\ (pending = <<>> /\ burst.calls > 0) => burst.invoked = burst.lastArg
  /\ user.op = "debounced" => searchValue = TrimOrNull(burst.lastArg[1])

\* C10 witness: several calls were coalesced, the timer has expired and the
\* query runs with the last call's value.
C10_Witness ==
  /\ burst.calls >= 3
  /\ pending = <<>>
  /\ burst.invoked = <<<<"\t", "a", " ">>>>
  /\ user.op = "debounced"
  /\ user.note = "changed"
  /\ searchValue = Some(<<"a">>)
  /\ Synced
  /\ ~skip

\* C11: an onSearch call that is pending when the hook is unmounted is
\* cancelled: as long as nothing else is called after the unmount, its timer
\* never expires into a delivery, so onSearchImmediate and setSearchValue are
\* not called for it after the unmount.
C11_NoFireAfterUnmount ==
  [][(~mounted /\ user.op = "unmount" /\ user.note = "pending") => ~DebounceFire]_vars

\* C12: when a page request settles without a fetchMoreResult, updateQuery
\* neither merges nor throws: the step changes no cached response and nothing
\* the hook exposes, and the response held for the query's variables, with its
\* items and pagination, stays the one held before.
C12_EmptyFetchNoOp ==
  /\ [](last.op = "moreEmpty"
          => /\ last.res = "kept"
             /\ cache[last.vars] = last.prev
             /\ (Synced /\ oqVars = last.vars)
                  => /\ Items(view.data) = Items(last.prev)
                     /\ Pagination(view.data) = Pagination(last.prev))
  /\ [][(\E i \in 1..Len(moreInFlight) : MoreEmpty(i))
          => /\ UNCHANGED <<cache, view, searchValue, oqVars, oqError>>
             /\ Len(moreInFlight') = Len(moreInFlight) - 1]_vars

\* C12 witness: a page request issued on an up-to-date render that showed the
\* two items of page 1 settled without a result, and the hook shows those two
\* items and page 1 still.
C12_Witness ==
  /\ last.op = "moreEmpty"
  /\ user.op = "loadNextPage"
  /\ user.note = "issued"
  /\ ~staleLoad
  /\ loads = 1
  /\ Synced
  /\ view.status = "ready"
  /\ Len(Items(view.data)) = 2
  /\ Pagination(view.data).pageNumber = 1
  /\ HasNextPage(view.data)

\* C13: in every state the hook's hasNextPage is true exactly when the exposed
\* pagination has pageNumber < totalPage: false on page 3 of 3, true on page 2
\* of 3, false for the sentinel shown while there is no response.
C13_HasNextPageIff ==
  LET p == Pagination(view.data)
  IN /\ HasNextPage(view.data) <=> p.pageNumber < p.totalPage
     /\ (p.pageNumber = 3 /\ p.totalPage = 3) => ~HasNextPage(view.data)
     /\ (p.pageNumber = 2 /\ p.totalPage = 3) => HasNextPage(view.data)
     /\ ~view.data.has
          => /\ p = [pageNumber |-> 0, pageSize |-> 0, total |-> 0, totalPage |-> 0]
             /\ ~HasNextPage(view.data)

\* C13 witness: the last of three pages has been merged and is shown.
C13_Witness ==
  /\ MergeShown
  /\ Pagination(view.data).pageNumber = 3
  /\ Pagination(view.data).totalPage = 3
  /\ ~HasNextPage(view.data)
  /\ loads = 2

\* C14: a loadNextPage call whose guard passes issues exactly one page request,
\* for pageNumber + 1 and the pageSize of the pagination the hook exposes and
\* for the searchValue it exposes; on an up-to-date render these are the
\* pagination of the query's current response and the current searchValue.
C14_NextPageVariables ==
  [][(LoadNextPage /\ HasNextPage(view.data) /\ ~IsFetching(view.status))
       => /\ Len(moreInFlight') = Len(moreInFlight) + 1
          /\ SubSeq(moreInFlight', 1, Len(moreInFlight)) = moreInFlight
          /\ LET request == moreInFlight'[Len(moreInFlight')]
             IN /\ request.search = view.searchValue
                /\ request.pagination =
                     [pageSize   |-> Pagination(view.data).pageSize,
                      pageNumber |-> Pagination(view.data).pageNumber + 1]
                /\ Synced
                     => /\ request.search = searchValue
                        /\ request.pagination =
                             [pageSize   |-> GetPagination(cache[oqVars]).pageSize,
                              pageNumber |-> GetPagination(cache[oqVars]).pageNumber + 1]]_vars

\* C14 witness: with search "a" and pages 1 and 2 of the unfiltered list
\* loaded before, page 2 of "a" has just been requested.
C14_Witness ==
  /\ user.op = "loadNextPage"
  /\ user.note = "issued"
  /\ ~staleLoad
  /\ searchValue = Some(<<"a">>)
  /\ Pagination(cache[Null]).pageNumber = 2
  /\ moreInFlight = << [search     |-> Some(<<"a">>),
                        pagination |-> [pageSize |-> 2, pageNumber |-> 2],
                        orig       |-> "ready"] >>

\* C15: onSearchImmediate(value) sets searchValue in the same step: to null for
\* an empty or all-whitespace value, and otherwise to the part of value that is
\* left when the whitespace before and after it is taken away.
C15_TrimmedOrNull ==
  [][\A value \in RawInputs :
       OnSearchImmediate(value)
         => IF \A k \in 1..Len(value) : value[k] \in WhiteSpace
            THEN searchValue' = Null
            ELSE /\ searchValue' # Null
                 /\ LET t == searchValue'[1]
                    IN /\ t # <<>>
                       /\ t[1] \notin WhiteSpace
                       /\ t[Len(t)] \notin WhiteSpace
                       /\ \E i \in 0..Len(value) :
                            /\ i + Len(t) <= Len(value)
                            /\ SubSeq(value, i + 1, i + Len(t)) = t
                            /\ \A k \in 1..i : value[k] \in WhiteSpace
                            /\ \A k \in (i + Len(t) + 1)..Len(value) : value[k] \in WhiteSpace]_vars

\* C15 witness: the handler has changed searchValue to "a" and the query runs
\* with it.
C15_Witness ==
  /\ user.op = "onSearchImmediate"
  /\ user.note = "changed"
  /\ searchValue = Some(<<"a">>)
  /\ Synced
  /\ oqVars = Some(<<"a">>)

\* C16: checkHasBottomReached returns true exactly when scrollHeight -
\* scrollTop - clientHeight <= bottomOffset, bottomOffset being 30 when left
\* out: for a content of 1000 in a view of 400 with offset 30 exactly from
\* scrollTop 570 on; with offset 0 only at the bottom itself; and at every
\* scrollTop when the content is shorter than the view plus the offset.
C16_BottomReached ==
  scroll.reached # <<>>
    => LET e == scroll.event[1]
           threshold == IF scroll.bottomOffset = <<>> THEN 30 ELSE scroll.bottomOffset[1]
           reached == scroll.reached[1]
       IN /\ reached <=> (e.scrollHeight - e.scrollTop - e.clientHeight <= threshold)
          /\ (e.scrollHeight = 1000 /\ e.clientHeight = 400 /\ threshold = 30)
               => (reached <=> e.scrollTop >= 570)
          /\ (threshold = 0 /\ e.scrollTop <= e.scrollHeight - e.clientHeight)
               => (reached <=> e.scrollTop = e.scrollHeight - e.clientHeight)
          /\ (e.scrollHeight < e.clientHeight + threshold) => reached

\* C16 witness: the call without a bottomOffset at scrollTop 570 of a content
\* of 1000 in a view of 400 returned true.
C16_Witness ==
  /\ scroll.reached = <<TRUE>>
  /\ scroll.bottomOffset = <<>>
  /\ scroll.event = <<[scrollHeight |-> 1000, scrollTop |-> 570, clientHeight |-> 400]>>

\* C17: a call that is pending on the debounced function when a change of
\* debounceTime replaces it never takes effect: the timer of the replaced
\* function never delivers it and searchValue is never changed by it.
C17_DelayChangeCancels == ~(user.op = "replaced" /\ user.note = "changed")

\* C18: a re-render that is not for a new debounceTime keeps the debounced
\* function and its armed timer; a pending onSearch call ends only by being
\* delivered, with its own argument, when the timer expires or onSearch.flush()
\* is called, or by reset() or onSearch.cancel().
C18_RenderKeepsPending ==
  /\ [][Render => UNCHANGED <<pending, timeLeft, debounceDelay>>]_vars
  /\ [][(pending # <<>> /\ pending' # pending)
          => \/ user'.op = "onSearch" /\ pending' # <<>>
             \/ /\ user'.op \in {"debounced", "flush"}
                /\ pending' = <<>>
                /\ searchValue' = TrimOrNull(pending[1])
             \/ user'.op \in {"reset", "cancel"} /\ pending' = <<>>]_vars
  /\ [](burst.rendered /\ pending = <<>> => burst.invoked = burst.lastArg)

\* C18 witness: onSearch("\ta ") was pending across a re-render, was delivered
\* after it and changed searchValue, and the query runs with "a".
C18_Witness ==
  /\ burst.rendered
  /\ pending = <<>>
  /\ burst.invoked = <<<<"\t", "a", " ">>>>
  /\ user.op = "debounced"
  /\ user.note = "changed"
  /\ searchValue = Some(<<"a">>)
  /\ Synced
  /\ ~skip

\* C19: the hook never retries.  A base request is issued only by a render
\* whose search value differs from the query's variables, a page request only
\* by a loadNextPage call; while the query reports an error no base request is
\* in flight; and every render exposes the query's error as it is.
C19_NoRetry ==
  /\ [][(baseInFlight' # baseInFlight /\ baseInFlight' # <<>>)
          => /\ ~skip
             /\ searchValue # oqVars
             /\ oqVars' = searchValue
             /\ baseInFlight' = <<searchValue>>]_vars
  /\ [][Len(moreInFlight') > Len(moreInFlight)
          => /\ user'.op = "loadNextPage"
             /\ user'.note = "issued"
             /\ Len(moreInFlight') = Len(moreInFlight) + 1]_vars
  /\ [](oqError => baseInFlight = <<>>)
  /\ [][view' # view => view'.error = oqError']_vars

\* C19 witness: the base query for "a" failed; the hook shows the error, and
\* nothing is in flight.
C19_Witness ==
  /\ last.op = "baseFail"
  /\ searchValue = Some(<<"a">>)
  /\ oqError
  /\ Synced
  /\ view.error
  /\ view.status = "error"
  /\ baseInFlight = <<>>
  /\ moreInFlight = <<>>

\* C20: what the hook exposes is derived from the response the query has at the
\* render: without a response the items are empty and the pagination is the
\* sentinel of four zeros, with one they are getItems and getPagination of it;
\* and on an up-to-date render that response is the one the query holds for
\* its current variables.
C20_DerivedFromResponse ==
  /\ ~view.data.has
       => /\ Items(view.data) = <<>>
          /\ Pagination(view.data) =
               [pageNumber |-> 0, pageSize |-> 0, total |-> 0, totalPage |-> 0]
  /\ view.data.has
       => /\ Items(view.data) = GetItems(view.data)
          /\ Pagination(view.data) = GetPagination(view.data)
  /\ Synced => view.data = cache[oqVars]

\* C20 witness: the search changed to a value with no response yet while the
\* first two pages of the former search are held: the hook shows no items and
\* the sentinel.
C20_Witness ==
  /\ Synced
  /\ view.status = "setVariables"
  /\ ~view.data.has
  /\ cache[Null].has
  /\ Pagination(cache[Null]).pageNumber = 2
  /\ searchValue = Some(<<"a">>)
  /\ ~staleLoad

\* C21: with skip set the hook executes no query, whatever handlers are
\* called: no base request and no page request is ever in flight, none was
\* issued, and no response is held or shown.
C21_SkipNoQuery ==
  skip => /\ baseInFlight = <<>>
          /\ moreInFlight = <<>>
          /\ loads = 0
          /\ status = "ready"
          /\ \A k \in SearchKeys : ~cache[k].has
          /\ ~view.data.has

\* C21 witness: with skip set a debounced search has set searchValue to "a",
\* the hook has rendered with it, and a loadNextPage call was dropped.
C21_Witness ==
  /\ skip
  /\ searchValue = Some(<<"a">>)
  /\ burst.invoked # <<>>
  /\ Synced
  /\ user.op = "loadNextPage"
  /\ user.note = "dropped"

\* C22: after a page merge the response committed for the query's variables
\* reads back, through the caller's extractors, as the merged list and the
\* incoming pagination, for every response shape the extractors read.
C22_ShapePreserved ==
  (last.op = "moreDone" /\ last.res = "merged")
    => /\ GetItems(cache[last.vars])
            = MergeItems(GetItems(last.prev), GetItems(last.inc))
       /\ GetPagination(cache[last.vars]) = GetPagination(last.inc)

RECURSIVE Flatten(_)
Flatten(pages) == IF pages = <<>> THEN <<>> ELSE Head(pages) \o Flatten(Tail(pages))

\* C23: with the search value left alone and the default merge, when each
\* loadNextPage call is made on a render that shows the previous one completed,
\* the exposed data is pages 1..pageNumber of the server's list in page order,
\* each once, and pageNumber is at most one more than the number of calls.
C23_Accumulation ==
  (mergeMode = "append" /\ ~staleLoad /\ Synced /\ view.data.has)
    => /\ Items(view.data)
            = Flatten(SubSeq(ServerPages(searchValue), 1, Pagination(view.data).pageNumber))
       /\ Pagination(view.data).pageNumber <= loads + 1

\* C24: after a page request has failed, a loadNextPage call made once the
\* hook shows it is no longer fetching is accepted and asks for the page that
\* failed, with the same search value: the failure did not move the cursor.
C24_RetrySamePage ==
  [][(/\ LoadNextPage
      /\ last.op = "moreFail"
      /\ last.vars = oqVars
      /\ Synced
      /\ ~staleLoad
      /\ ~IsFetching(view.status)
      /\ moreInFlight = <<>>)
       => /\ user'.note = "issued"
          /\ Len(moreInFlight') = 1
          /\ moreInFlight'[1].pagination.pageNumber = last.page
          /\ moreInFlight'[1].search = last.search
          /\ last.page = Pagination(view.data).pageNumber + 1]_vars

\* C24 witness: the request for page 2 failed and the call made after it has
\* asked for page 2 again.
C24_Witness ==
  /\ last.op = "moreFail"
  /\ last.page = 2
  /\ user.op = "loadNextPage"
  /\ user.note = "issued"
  /\ ~staleLoad
  /\ loads = 2
  /\ Len(moreInFlight) = 1
  /\ moreInFlight[1].pagination.pageNumber = 2
  /\ view.status = "ready"

\* C25: searchValue starts as null; a step changes it only when it is a call
\* of onSearchImmediate, the delivery of a debounced onSearch call (when its
\* timer expires or onSearch.flush() is called) or a call of reset; loadNextPage, the completion or failure of a page request and the
\* completion of the base request leave it as it is.
C25_SearchValueFrame ==
  /\ searchValue = Null
  /\ [][searchValue' # searchValue
          => \/ \E value \in RawInputs : OnSearchImmediate(value)
             \/ DebounceFire
             \/ OnSearchFlush
             \/ Reset]_vars
  /\ [][(\/ LoadNextPage
         \/ BaseDone
         \/ \E i \in 1..Len(moreInFlight) : MoreDone(i) \/ MoreFail(i))
          => searchValue' = searchValue]_vars

\* C25 witness: after a debounced search for "a" and a page of it loaded,
\* searchValue is still "a".
C25_Witness ==
  /\ searchValue = Some(<<"a">>)
  /\ burst.invoked = <<<<"a">>>>
  /\ last.op = "moreDone"
  /\ last.search = Some(<<"a">>)
  /\ last.res = "merged"
  /\ Synced

\* C26: the handler called last decides searchValue: when the debounce timer
\* expires after onSearchImmediate was called later than the pending onSearch
\* call, searchValue keeps what onSearchImmediate set.
C26_LastSearchWins ==
  [][(user.op = "onSearchImmediate" /\ DebounceFire) => searchValue' = searchValue]_vars

\* C27: with the search value fixed, the server reporting T pages and every
\* request succeeding, a caller that calls loadNextPage whenever the hook is
\* idle ends, for good, on a render with hasNextPage false after exactly T - 1
\* page requests; never more than T - 1 are issued, and a call made while
\* hasNextPage is false issues none.
C27_PagingTerminates ==
  /\ [](loads <= Len(ServerPages(searchValue)) - 1)
  /\ ~skip => <>[](/\ Synced
                   /\ view.data.has
                   /\ ~HasNextPage(view.data)
                   /\ moreInFlight = <<>>
                   /\ loads = Len(ServerPages(searchValue)) - 1)
  /\ [][(LoadNextPage /\ ~HasNextPage(view.data)) => UNCHANGED <<moreInFlight, loads>>]_vars

\* C27 witness: the third of three pages is shown after two page requests and
\* the call made then was dropped.
C27_Witness ==
  /\ Synced
  /\ view.data.has
  /\ Pagination(view.data).pageNumber = 3
  /\ Pagination(view.data).totalPage = 3
  /\ loads = 2
  /\ moreInFlight = <<>>
  /\ user.op = "loadNextPage"
  /\ user.note = "dropped"

\* C28: on every render isFetchingNextPage implies isFetching, so a consumer
\* that shows its empty state when the list is empty and isFetching is false
\* shows it on exactly the renders where the test that also asks for
\* isFetchingNextPage false shows it, and on none during a page fetch.
C28_NextPageImpliesFetching ==
  /\ IsFetchingNextPage(view.status) => IsFetching(view.status)
  /\ IsFetchingNextPage(status) => IsFetching(status)
  /\ (Items(view.data) = <<>> /\ ~IsFetching(view.status))
       <=> (Items(view.data) = <<>> /\ ~IsFetching(view.status)
              /\ ~IsFetchingNextPage(view.status))

\* C28 witness: a render made while a page request is in flight shows both
\* flags true.
C28_Witness ==
  /\ Synced
  /\ Len(moreInFlight) = 1
  /\ view.status = "fetchMore"
  /\ IsFetchingNextPage(view.status)
  /\ IsFetching(view.status)
  /\ user.op = "loadNextPage"
  /\ user.note = "issued"

\* C29: in every state searchValue, and the searchValue the hook exposes, is
\* null or a non-empty string that neither starts nor ends with white space; the
\* empty string is never stored.
C29_NullOrTrimmed ==
  \A sv \in {searchValue, view.searchValue} :
    \/ sv = Null
    \/ /\ Len(sv) = 1
       /\ sv[1] # <<>>
       /\ sv[1][1] \notin WhiteSpace
       /\ sv[1][Len(sv[1])] \notin WhiteSpace

\* C29 witness: a debounced search with a value of white space only has cleared the
\* search "a": searchValue is null, as at the start.
C29_Witness ==
  /\ searchValue = Null
  /\ user.op = "debounced"
  /\ user.note = "changed"
  /\ burst.invoked = <<<<" ">>>>
  /\ cache[Some(<<"a">>)].has

\* C30 as stated: when the caller of InfiniteSelect supplies a de-duplicating
\* mergeItems, a page loaded by scrolling is combined with the pages before it
\* by that merge.
C30_CallerMergeUsed ==
  (select.mergeItems = "dedup" /\ last.op = "moreDone" /\ last.res = "merged")
    => MergeItems(GetItems(last.prev), GetItems(last.inc))
         = DedupMerge(GetItems(last.prev), GetItems(last.inc))

\* C30 amended: InfiniteSelect passes no mergeItems to the hook whatever its
\* caller supplies, so the hook works with its default merge and every page
\* loaded by scrolling the list is combined with the pages before it by plain
\* concatenation.
C30_DefaultMergeUsed ==
  /\ mergeMode = "append"
  /\ (last.op = "moreDone" /\ last.res = "merged")
       => MergeItems(GetItems(last.prev), GetItems(last.inc))
            = GetItems(last.prev) \o GetItems(last.inc)

\* C30 witness: the caller supplied the de-duplicating merge, the list was
\* scrolled to the bottom under search "a", and the second page, which repeats
\* an item of the first, was merged.
C30_Witness ==
  /\ select.mergeItems = "dedup"
  /\ select.open
  /\ user.op = "loadNextPage"
  /\ last.op = "moreDone"
  /\ last.res = "merged"
  /\ last.search = Some(<<"a">>)
  /\ GetItems(last.prev) = <<1, 2>>
  /\ GetItems(last.inc) = <<2, 3>>

====
